---- MODULE Spec2Model ----
(***************************************************************************)
(* fsspecmonitor.FsspecMonitor: monkey-patching of `_fetch_range` on the   *)
(* target file classes, the log of intercepted calls and the aggregate     *)
(* queries over it.                                                        *)
(*                                                                         *)
(* A callable bound to `<type>._fetch_range` is a sequence of wrappers,    *)
(* outermost first, around the type's own method: <<>> is the original     *)
(* method itself, <<w>> \o f is get_wrapper's closure `wrapper` over       *)
(* func = f.  A wrapper is [mon, n]: the monitor it logs to (the closure's *)
(* `self`) and the ordinal of the __enter__ that created it, which makes   *)
(* two closures created by different __enter__ calls different objects.    *)
(*                                                                         *)
(* Time is counted in whole ticks of time.perf_counter(): an enclosing     *)
(* wrapper measures the ticks of the callable it wraps, its own overhead   *)
(* being below one tick.  The float quotient of _compute_throughput is     *)
(* kept as the exact fraction num/den.                                     *)
(*                                                                         *)
(* File objects of the target classes carry `path` and a numeric `size`    *)
(* (as fsspec's do), so the header line of a verbose wrapper never fails.  *)
(* The variables after `requests` record what callers and the console      *)
(* observe; the program does not read them.                                *)
(***************************************************************************)
EXTENDS Integers, Sequences, FiniteSets, TLC

\* ------------------------------------------------------------- bounds
\* __enter__ calls in one run (each one creates fresh wrappers).
MaxEnters == 2
\* calls of _fetch_range (and, in SpecLog, direct calls of log) in one run.
MaxCalls == 2

\* 1024 * 1024
MiB == 1048576

\* ------------------------------------------------------------- inputs
\* Two monitor objects; the target classes are process-wide.
Monitors == {"m1", "m2"}
\* Two of the three classes of DEFAULT_TARGETS; none inherits _fetch_range from another.
Types == {"HTTPFile", "S3File"}
\* self.targets of each monitor: the default list, and a one-class list.
targets == [m \in Monitors |-> IF m = "m1" THEN <<"HTTPFile", "S3File">> ELSE <<"S3File">>]

\* (start, end, ticks): a byte range fsspec asks for (start <= end) and the
\* perf_counter difference measured around the original method (monotonic clock).
Fetches == {<<0, 2, 0>>, <<1, 4, 1>>}
\* self.verbose of each monitor.
verbose == [m \in Monitors |-> m = "m1"]
\* how a caller passes (self, start, end): all positional, or start/end by keyword.
ArgStyles == {"positional", "keyword"}
\* what the original _fetch_range does with a call.
Returned == [kind |-> "return", val |-> "payload"]
Raised(e) == [kind |-> "raise", val |-> e]
OrigOutcomes == {Returned, Raised("OSError")}
\* (byte_start, byte_end, time_elapsed) a caller may hand to the public log()
\* method directly: what a wrapper would log, and values no wrapper logs.
LogArgs == Fetches \cup {<<2, 1, -1>>, <<0, 3, 2>>}

VARIABLES
    fetch_range,       \* [Types -> callable]: <type>._fetch_range
    original_methods,  \* [Monitors -> [Types -> <<>> | <<callable>>]]: self._original_methods
    requests,          \* [Monitors -> Seq(<<start, end, elapsed>>)]: self._requests
    out,               \* [Monitors -> Seq(kind)]: kinds of the lines the monitor's wrapper printed since its last __enter__
    last,              \* the latest operation and what its caller observed
    enters,            \* number of __enter__ calls so far
    calls,             \* number of _fetch_range / log calls so far
    phase,             \* [Monitors -> "new" | "active" | "exited"]: the monitor's latest lifecycle call
    entry,             \* [Monitors -> Seq(snapshot of fetch_range)]: bindings found by each __enter__ not yet matched by an __exit__
    first,             \* [Monitors -> <<>> | <<snapshot>>]: bindings found by the monitor's first __enter__
    completed,         \* [Monitors -> Nat]: intercepted calls that returned since the monitor's log was last reset
    reentered,         \* [Monitors -> BOOLEAN]: __enter__ ran while one of the monitor's own wrappers was installed
    overlapped         \* [Monitors -> BOOLEAN]: another monitor's __enter__ ran while this monitor's wrapper was installed

vars == <<fetch_range, original_methods, requests, out, last, enters, calls,
          phase, entry, first, completed, reentered, overlapped>>

\* ------------------------------------------------------------- helpers
Range(s) == {s[i] : i \in 1..Len(s)}
MonsOf(f) == {f[i].mon : i \in 1..Len(f)}
NoSnapshot == [t \in Types |-> <<>>]
NoLast == [op |-> "init", mon |-> "m1", again |-> FALSE,
           orig |-> Returned, outcome |-> Returned, invoked |-> 0, depth |-> 0,
           logged |-> {}, console |-> <<>>, dropped |-> 0,
           pre |-> NoSnapshot, paired |-> FALSE]
\* again: the operation before this one was the same operation of the same monitor
Did(op, m) == [NoLast EXCEPT !.op = op, !.mon = m, !.again = (last.op = op /\ last.mon = m)]

\* ------------------------------------------------------------- aggregate queries
Inf == [inf |-> TRUE, num |-> 0, den |-> 0]

compute_throughput_lt(bytes, elapsed) ==
    IF elapsed < 0 THEN Inf ELSE [inf |-> FALSE, num |-> bytes, den |-> elapsed * MiB]

\* _compute_throughput
compute_throughput(bytes, elapsed) ==
    IF elapsed <= 0 THEN Inf ELSE [inf |-> FALSE, num |-> bytes, den |-> elapsed * MiB]

RECURSIVE sum(_)
\* Python's sum() over a list of numbers
sum(xs) == IF xs = <<>> THEN 0 ELSE xs[1] + sum(Tail(xs))

bytes_transferred_ends(m) == sum([i \in 1..Len(requests[m]) |-> requests[m][i][2]])

bytes_transferred(m) == sum([i \in 1..Len(requests[m]) |-> requests[m][i][2] - requests[m][i][1]])

time_elapsed(m) == sum([i \in 1..Len(requests[m]) |-> requests[m][i][3]])

throughput(m) == compute_throughput(bytes_transferred(m), time_elapsed(m))

\* requests(): the number of records
requests_count(m) == Len(requests[m])

\* the line summary() prints
summary_line(m) ==
    <<"Summary", bytes_transferred(m), time_elapsed(m), throughput(m), requests_count(m)>>

\* ------------------------------------------------------------- log, reset
reset_keep(reqs) == reqs

reset(reqs) == <<>>

log_replace(reqs, byte_start, byte_end, elapsed) == <<<<byte_start, byte_end, elapsed>>>>

log(reqs, byte_start, byte_end, elapsed) == Append(reqs, <<byte_start, byte_end, elapsed>>)

\* self.print of monitor m: one more line on the console
print(con, m, msg) == Append(con, [mon |-> m, msg |-> msg])

\* the kinds of the lines of con that monitor m printed, in order
KindsOf(con, m) ==
    LET idx == {i \in 1..Len(con) : con[i].mon = m}
        RECURSIVE walk(_)
        walk(i) == IF i > Len(con) THEN <<>>
                   ELSE (IF i \in idx THEN <<con[i].msg[1]>> ELSE <<>>) \o walk(i + 1)
    IN  walk(1)

\* ------------------------------------------------------------- the wrapper
RECURSIVE Invoke(_, _, _, _)

\* A wrapper that logs in a `finally`: the record is appended when func raises too.
wrapper_finally(m, func, c, reqs, con) ==
    IF c.style # "positional"
    THEN [reqs |-> reqs, console |-> con, outcome |-> Raised("ValueError"),
          invoked |-> 0, elapsed |-> 0]
    ELSE LET r == Invoke(func, c, reqs, con)
         IN  [r EXCEPT !.reqs = [r.reqs EXCEPT ![m] = log(@, c.start, c.end, r.elapsed)]]

\* get_wrapper.wrapper with self = m, called with the call c
wrapper(m, func, c, reqs, con) ==
    IF c.style # "positional"
    THEN \* obj, start, end = args  fails to unpack: func is never called
         [reqs |-> reqs, console |-> con, outcome |-> Raised("ValueError"),
          invoked |-> 0, elapsed |-> 0]
    ELSE LET r == Invoke(func, c, reqs, con)
         IN  IF r.outcome.kind = "raise"
             THEN r
             ELSE LET el == r.elapsed
                      hdr == IF r.reqs[m] = <<>>
                             THEN print(r.console, m, <<"Reading", c.type>>)
                             ELSE r.console
                      shown == IF verbose[m]
                               THEN print(hdr, m, <<"FETCH", c.start, c.end,
                                                    compute_throughput(c.end - c.start, el)>>)
                               ELSE r.console
                  IN  [reqs |-> [r.reqs EXCEPT ![m] = log(@, c.start, c.end, el)],
                       console |-> shown,
                       outcome |-> r.outcome,
                       invoked |-> r.invoked,
                       elapsed |-> el]

\* Calling the callable f: the type's own method, or a wrapper around the rest.
Invoke(f, c, reqs, con) ==
    IF f = <<>>
    THEN [reqs |-> reqs, console |-> con, outcome |-> c.orig, invoked |-> 1,
          elapsed |-> c.ticks]
    ELSE wrapper(Head(f).mon, Tail(f), c, reqs, con)

\* get_wrapper(func), called by monitor m in its n-th __enter__
get_wrapper(m, func, n) == <<[mon |-> m, n |-> n]>> \o func

\* ------------------------------------------------------------- __enter__, __exit__
save_always(om, t, cur) == <<cur>>

\* if target not in self._original_methods: self._original_methods[target] = target._fetch_range
save_original(om, t, cur) == IF om[t] = <<>> THEN <<cur>> ELSE om[t]

RECURSIVE enter_loop(_, _, _, _, _)
\* for target in self.targets: ...
enter_loop(m, ts, om, fr, n) ==
    IF ts = <<>>
    THEN [om |-> om, fr |-> fr]
    ELSE LET t == Head(ts)
             om1 == [om EXCEPT ![t] = save_original(om, t, fr[t])]
             fr1 == [fr EXCEPT ![t] = get_wrapper(m, fr[t], n)]
         IN  enter_loop(m, Tail(ts), om1, fr1, n)

restore_keep(om, t, cur) == cur

restore_unwrap(om, t, cur) == IF cur = <<>> THEN cur ELSE Tail(cur)

\* target._fetch_range = self._original_methods[target]
restore_binding(om, t, cur) == om[t][1]

RECURSIVE exit_loop(_, _, _)
\* for target in self.targets: ...   (a missing key raises KeyError and ends the loop)
exit_loop(ts, om, fr) ==
    IF ts = <<>>
    THEN [fr |-> fr, outcome |-> Returned]
    ELSE LET t == Head(ts)
         IN  IF om[t] = <<>>
             THEN [fr |-> fr, outcome |-> Raised("KeyError")]
             ELSE exit_loop(Tail(ts), om, [fr EXCEPT ![t] = restore_binding(om, t, fr[t])])

\* ------------------------------------------------------------- state machine
Init ==
    /\ fetch_range = [t \in Types |-> <<>>]
    /\ original_methods = [m \in Monitors |-> [t \in Types |-> <<>>]]
    /\ requests = [m \in Monitors |-> <<>>]
    /\ out = [m \in Monitors |-> <<>>]
    /\ last = NoLast
    /\ enters = 0
    /\ calls = 0
    /\ phase = [m \in Monitors |-> "new"]
    /\ entry = [m \in Monitors |-> <<>>]
    /\ first = [m \in Monitors |-> <<>>]
    /\ completed = [m \in Monitors |-> 0]
    /\ reentered = [m \in Monitors |-> FALSE]
    /\ overlapped = [m \in Monitors |-> FALSE]

\* monitor.__enter__()
Enter(m) ==
    /\ enters < MaxEnters
    /\ LET r == enter_loop(m, targets[m], original_methods[m], fetch_range, enters + 1)
           installed == UNION {MonsOf(fetch_range[t]) : t \in Range(targets[m])}
       IN  /\ requests' = [requests EXCEPT ![m] = reset(@)]
           /\ original_methods' = [original_methods EXCEPT ![m] = r.om]
           /\ fetch_range' = r.fr
           /\ reentered' = [reentered EXCEPT ![m] = @ \/ m \in installed]
           /\ overlapped' = [k \in Monitors |->
                                overlapped[k] \/ (k # m /\ k \in installed)]
    /\ enters' = enters + 1
    /\ out' = [out EXCEPT ![m] = <<>>]
    /\ completed' = [completed EXCEPT ![m] = 0]
    /\ phase' = [phase EXCEPT ![m] = "active"]
    /\ entry' = [entry EXCEPT ![m] = <<fetch_range>> \o @]
    /\ first' = [first EXCEPT ![m] = IF @ = <<>> THEN <<fetch_range>> ELSE @]
    /\ last' = Did("enter", m)
    /\ UNCHANGED calls

\* monitor.__exit__(exc_type, exc_value, exc_tb); exc tells whether the scope failed
Exit(m, exc) ==
    /\ LET r == exit_loop(targets[m], original_methods[m], fetch_range)
           ok == r.outcome.kind = "return"
       IN  /\ fetch_range' = r.fr
           /\ phase' = [phase EXCEPT ![m] = IF ok THEN "exited" ELSE @]
           /\ entry' = [entry EXCEPT ![m] = IF ok /\ @ # <<>> THEN Tail(@) ELSE @]
           /\ last' = [Did("exit", m) EXCEPT
                          !.outcome = r.outcome,
                          !.paired = ok /\ entry[m] # <<>>,
                          !.pre = IF ok /\ entry[m] # <<>> THEN Head(entry[m]) ELSE NoSnapshot]
    /\ UNCHANGED <<original_methods, requests, out, enters, calls, first,
                   completed, reentered, overlapped>>

\* monitor.reset()
Reset(m) ==
    /\ requests' = [requests EXCEPT ![m] = reset(@)]
    /\ completed' = [completed EXCEPT ![m] = 0]
    /\ last' = [Did("reset", m) EXCEPT !.dropped = Len(requests[m])]
    /\ UNCHANGED <<fetch_range, original_methods, out, enters, calls, phase,
                   entry, first, reentered, overlapped>>

\* a file object of class t has its _fetch_range called
Call(t, style, fetch, orig) ==
    /\ calls < MaxCalls
    /\ LET c == [type |-> t, style |-> style, start |-> fetch[1], end |-> fetch[2],
                 orig |-> orig, ticks |-> fetch[3]]
           f == fetch_range[t]
           r == Invoke(f, c, requests, <<>>)
       IN  /\ requests' = r.reqs
           /\ out' = [m \in Monitors |-> out[m] \o KindsOf(r.console, m)]
           /\ completed' = [m \in Monitors |->
                               IF m \in MonsOf(f) /\ r.outcome.kind = "return"
                               THEN completed[m] + 1 ELSE completed[m]]
           /\ last' = [Did("call", "m1") EXCEPT
                          !.orig = orig,
                          !.outcome = r.outcome, !.invoked = r.invoked,
                          !.depth = Len(f),
                          !.logged = {m \in Monitors : r.reqs[m] # requests[m]},
                          !.console = r.console]
    /\ calls' = calls + 1
    /\ UNCHANGED <<fetch_range, original_methods, enters, phase, entry, first,
                   reentered, overlapped>>

\* monitor.log(byte_start, byte_end, time_elapsed) called by the user directly
Log(m, rec) ==
    /\ calls < MaxCalls
    /\ requests' = [requests EXCEPT ![m] = log(@, rec[1], rec[2], rec[3])]
    /\ calls' = calls + 1
    /\ last' = Did("log", m)
    /\ UNCHANGED <<fetch_range, original_methods, out, enters, phase, entry,
                   first, completed, reentered, overlapped>>

Next ==
    \/ \E m \in Monitors : Enter(m)
    \/ \E m \in Monitors, exc \in BOOLEAN : Exit(m, exc)
    \/ \E m \in Monitors : Reset(m)
    \/ \E t \in Types, style \in ArgStyles, fetch \in Fetches, orig \in OrigOutcomes :
          Call(t, style, fetch, orig)

\* __enter__, __exit__, reset and calls of _fetch_range
Spec == Init /\ [][Next]_vars

NextLog ==
    \/ \E m \in Monitors : Enter(m)
    \/ \E m \in Monitors, exc \in BOOLEAN : Exit(m, exc)
    \/ \E m \in Monitors : Reset(m)
    \/ \E m \in Monitors, rec \in LogArgs : Log(m, rec)

\* the monitor used as a recorder: __enter__, __exit__, reset and direct calls of
\* the public log() method, with any arguments
SpecLog == Init /\ [][NextLog]_vars

\* ------------------------------------------------------------- properties
Targets(m) == Range(targets[m])
ExitReturned == last.op = "exit" /\ last.outcome.kind = "return"
PrintedBy(con, m) == {i \in 1..Len(con) : con[i].mon = m}

\* C1 (as claimed): after the __exit__ that ends a session, each target type's
\* _fetch_range is the callable it was immediately before that session's __enter__.
C1_RestoresPreEnterBinding ==
    (ExitReturned /\ last.paired) =>
        \A t \in Targets(last.mon) : fetch_range[t] = last.pre[t]

\* C1 (amended): after any __exit__ that returns, each target type's _fetch_range
\* is the callable the monitor's FIRST __enter__ found there; so a session whose
\* __enter__ found that same callable gets its pre-enter binding back.
C1_RestoresFirstEnterBinding ==
    ExitReturned =>
        /\ first[last.mon] # <<>>
        /\ \A t \in Targets(last.mon) : fetch_range[t] = first[last.mon][1][t]
        /\ (last.paired /\ \A t \in Targets(last.mon) : last.pre[t] = first[last.mon][1][t])
              => \A t \in Targets(last.mon) : fetch_range[t] = last.pre[t]

\* a second session of one monitor has ended and got its pre-enter bindings back
C1_Witness ==
    /\ ExitReturned /\ last.paired
    /\ enters = 2
    /\ entry[last.mon] = <<>>
    /\ \A m \in Monitors \ {last.mon} : first[m] = <<>>
    /\ \A t \in Targets(last.mon) : fetch_range[t] = last.pre[t]

\* C2 (as claimed): in every reachable state the length of _requests is the number
\* of intercepted calls that returned since the last reset.
C2_LogLengthIsCompletedCalls ==
    \A m \in Monitors : Len(requests[m]) = completed[m]

\* C2 (amended): the same, for a monitor whose __enter__ never ran while one of
\* its own wrappers was installed on a target type.
C2_LogLengthWithoutReentry ==
    \A m \in Monitors : ~reentered[m] => Len(requests[m]) = completed[m]

\* two intercepted calls have returned in a session that was not re-entered
C2_Witness ==
    \E m \in Monitors : ~reentered[m] /\ completed[m] = 2 /\ Len(requests[m]) = 2

\* C3: an intercepted call whose original _fetch_range raises shows the caller that
\* same failure and leaves every _requests list as it was.
C3_FailurePropagatesUnlogged ==
    (last.op = "call" /\ last.depth > 0 /\ last.invoked > 0 /\ last.orig.kind = "raise") =>
        /\ last.outcome = last.orig
        /\ last.logged = {}

\* the original raised under an installed wrapper whose monitor already holds a record
C3_Witness ==
    /\ last.op = "call" /\ last.depth > 0 /\ last.invoked > 0 /\ last.orig.kind = "raise"
    /\ \E m \in Monitors : phase[m] = "active" /\ requests[m] # <<>>

\* C4 (as claimed): once a monitor's __exit__ has run, a call of _fetch_range on a
\* target type appends nothing to its _requests and prints nothing for it.
C4_NoCaptureAfterExit ==
    last.op = "call" =>
        \A m \in Monitors :
            phase[m] = "exited" => (m \notin last.logged /\ PrintedBy(last.console, m) = {})

\* C4 (amended): the same, for a monitor none of whose wrappers was installed when
\* another monitor's __enter__ ran.
C4_NoCaptureAfterExitAlone ==
    last.op = "call" =>
        \A m \in Monitors :
            (phase[m] = "exited" /\ ~overlapped[m]) =>
                (m \notin last.logged /\ PrintedBy(last.console, m) = {})

\* a call returns after a monitor that was entered twice has exited
C4_Witness ==
    /\ last.op = "call" /\ last.outcome.kind = "return"
    /\ \E m \in Monitors : phase[m] = "exited" /\ ~overlapped[m] /\ reentered[m]

\* C5 (as claimed): for every intercepted call matching (self, start, end), however
\* passed, the original runs exactly once and the caller sees the original's outcome.
C5_WrapperTransparent ==
    (last.op = "call" /\ last.depth > 0) =>
        (last.invoked = 1 /\ last.outcome = last.orig)

RECURSIVE TotalLength(_, _)
\* (end_1 - start_1) + ... + (end_i - start_i)
TotalLength(reqs, i) ==
    IF i = 0 THEN 0 ELSE TotalLength(reqs, i - 1) + (reqs[i][2] - reqs[i][1])

RECURSIVE TotalElapsed(_, _)
\* elapsed_1 + ... + elapsed_i
TotalElapsed(reqs, i) ==
    IF i = 0 THEN 0 ELSE TotalElapsed(reqs, i - 1) + reqs[i][3]

\* C6: bytes_transferred() is the sum of (end_i - start_i) over the records now in
\* _requests, and 0 for the empty log.
C6_BytesIsSumOfLengths ==
    \A m \in Monitors :
        /\ bytes_transferred(m) = TotalLength(requests[m], Len(requests[m]))
        /\ requests[m] = <<>> => bytes_transferred(m) = 0

\* a monitor in a session holds two records of non-zero total length
C6_Witness ==
    \E m \in Monitors :
        phase[m] = "active" /\ Len(requests[m]) = 2 /\ bytes_transferred(m) # 0

\* C7: throughput() is positive infinity when time_elapsed() <= 0 and otherwise the
\* quotient bytes_transferred() / (time_elapsed() * 1048576).
C7_ThroughputTotal ==
    \A m \in Monitors :
        LET t == TotalElapsed(requests[m], Len(requests[m]))
            b == TotalLength(requests[m], Len(requests[m]))
            thr == throughput(m)
        IN  /\ t = time_elapsed(m)
            /\ t <= 0 => thr = Inf
            /\ t > 0 => /\ ~thr.inf
                        /\ thr.den # 0
                        /\ thr.num * (t * 1048576) = b * thr.den

\* one monitor holds records whose elapsed times sum to zero or less, the other
\* records whose elapsed times sum to more than zero
C7_Witness ==
    \E a, b \in Monitors :
        /\ requests[a] # <<>> /\ time_elapsed(a) <= 0
        /\ time_elapsed(b) > 0 /\ bytes_transferred(b) > 0

\* C8: right after reset() the aggregate queries give the empty-state values.
C8_ResetGivesEmptyValues ==
    last.op = "reset" =>
        /\ bytes_transferred(last.mon) = 0
        /\ time_elapsed(last.mon) = 0
        /\ requests_count(last.mon) = 0
        /\ throughput(last.mon) = Inf

\* reset() has just dropped records of a monitor in a session
C8_Witness ==
    last.op = "reset" /\ last.dropped > 0 /\ phase[last.mon] = "active"

\* C9: once __enter__ has completed, an __exit__ that directly follows an __exit__
\* of the same monitor raises nothing and changes no binding, no saved original
\* and no log.
C9_ExitIdempotent ==
    [][(first[last.mon] # <<>> /\ last.op = "exit" /\ last'.op = "exit"
            /\ last'.mon = last.mon)
        => (/\ last.outcome.kind = "return"
            /\ last'.outcome.kind = "return"
            /\ fetch_range' = fetch_range
            /\ original_methods' = original_methods
            /\ requests' = requests)]_vars

\* a monitor that was entered twice has exited twice in a row
C9_Witness ==
    /\ ExitReturned /\ last.again
    /\ reentered[last.mon]

\* C10 (as claimed): in a verbose session the wrapper prints the "Reading" header
\* once, right before the first FETCH line, and never again; a monitor that is not
\* verbose prints nothing.
C10_HeaderOncePerSession ==
    \A m \in Monitors :
        phase[m] = "active" =>
            IF verbose[m]
            THEN out[m] = <<>> \/ (/\ out[m][1] = "Reading"
                                   /\ \A i \in 2..Len(out[m]) : out[m][i] = "FETCH")
            ELSE out[m] = <<>>
====
